---- MODULE Spec2Model ----
(***************************************************************************)
(* MediaWiki MCP adapter (src/src/index.ts): the bot-login session, the    *)
(* authenticated transport and the ten operation handlers, as a state      *)
(* machine.  Each handler runs in a call slot; a step of a slot is the     *)
(* code between two network awaits.  The upstream API is the environment:  *)
(* it answers every request with a rejection (transport error), a non-ok   *)
(* status, or an ok status with one of a list of JSON payloads.            *)
(***************************************************************************)
EXTENDS Naturals, Sequences, FiniteSets, TLC

\* ------------------------------------------------------------------ bounds
MaxCalls == 2        \* overlapping handler invocations (SpecCalls)
MaxConfigures == 2   \* calls of onConfigure (Spec)

\* --------------------------------------------------------------- JS values
\* A JSON/JS value is tagged with its type; === compares tag and value.
Undefined == [t |-> "undefined", v |-> ""]
Str(s) == [t |-> "string", v |-> s]
Num(n) == [t |-> "number", v |-> n]
Bool(b) == [t |-> "boolean", v |-> IF b THEN "true" ELSE "false"]
Arr(s) == [t |-> "array", v |-> s]
Obj(r) == [t |-> "object", v |-> r]
EmptyObj == [t |-> "object", v |-> [k \in {} |-> Undefined]]

StrictEq(a, b) == a.t = b.t /\ a.v = b.v

\* JS truthiness: undefined, "", 0 and false are falsy.
Truthy(a) ==
  CASE a.t = "undefined" -> FALSE
    [] a.t = "string" -> a.v # ""
    [] a.t = "number" -> a.v # "0"
    [] a.t = "boolean" -> a.v = "true"
    [] OTHER -> TRUE

\* Optional chaining a?.f (and a.f on a non-nullish a).
Get(a, f) ==
  IF a.t = "object" /\ f \in DOMAIN a.v THEN a.v[f] ELSE Undefined

\* String(v), as URLSearchParams applies it to the values of its init record.
JsString(a) == IF a.t = "undefined" THEN "undefined" ELSE a.v

\* string | null values (sessionCookie, header values): Null is JS null.
Null == "<null>"
Absent == "<undefined>"
NoHeader == "<no header>"
TruthyStr(s) == s # Null /\ s # Absent /\ s # ""

\* a?.[k] on an array (k counted from 0, as in the source).
At(a, k) ==
  IF a.t = "array" /\ k + 1 <= Len(a.v) THEN a.v[k + 1] ELSE Undefined

\* Object.values(o): JS lists integer-like keys in ascending order first, then
\* the other keys; KeyOrder lists the page ids the payloads use in that order.
KeyOrder == <<"12", "34", "-1">>
RECURSIVE ValuesFrom(_, _)
ValuesFrom(o, k) ==
  IF k > Len(KeyOrder) THEN <<>>
  ELSE (IF KeyOrder[k] \in DOMAIN o.v THEN <<o.v[KeyOrder[k]]>> ELSE <<>>)
       \o ValuesFrom(o, k + 1)
ObjectValues(o) == Arr(ValuesFrom(o, 1))

\* ------------------------------------------------------------------- state
VARIABLES
  sessionCookie,     \* let sessionCookie: string | null
  mediaWikiAPIBase,  \* let mediaWikiAPIBase
  wikiBaseAPIBase,   \* let wikiBaseAPIBase
  calls,             \* one record per handler invocation (its locals, requests, outcome)
  cfg,               \* the onConfigure / loginAsBot call in progress, or the last one
  nConfigures        \* how many times onConfigure was called

vars == <<sessionCookie, mediaWikiAPIBase, wikiBaseAPIBase, calls, cfg, nConfigures>>

USER_AGENT == "mediawikiadapter-app/1.0"
DefaultMediaWikiAPIBase == "https://en.wikipedia.org/w/api.php"
DefaultWikiBaseAPIBase == "https://www.wikidata.org/w/api.php"

ReadOps == {"getPageContent", "getPageSearchResults", "getPageMetadata",
            "getEntityData", "searchEntities"}
WriteOps == {"editPage", "createPage", "deletePage", "editEntity", "addStatement"}
Ops == ReadOps \cup WriteOps
WikiBaseOps == {"getEntityData", "searchEntities", "editEntity", "addStatement"}

\* ------------------------------------------------------- transport, errors
NoField == "<no field>"

\* fetch(url, options) as the caller writes it: options.headers and the body.
Options(method, url, query, ctype, cookie, token) ==
  [method |-> method, url |-> url, query |-> query,
   headers |-> [UserAgent |-> USER_AGENT, ContentType |-> ctype, Cookie |-> cookie],
   token |-> token]

\* fetch (node-fetch) dispatches the request exactly as given.
Fetch(options) == options

\* authenticatedFetch: the request that is dispatched for the caller's options.
AuthenticatedFetchWithoutCookie(options) == options
AuthenticatedFetchGetOnly(options) ==
  IF TruthyStr(sessionCookie) /\ options.method = "GET"
  THEN [options EXCEPT !.headers.Cookie = sessionCookie]
  ELSE options
AuthenticatedFetch(options) ==
  IF TruthyStr(sessionCookie)
  THEN [options EXCEPT !.headers.Cookie = sessionCookie]
  ELSE options

\* handleError: what it prints with console.error; it rethrows the message.
HandleError(msg) == <<"Error: " \o msg>>


\* The try/catch of a handler: only getPageContent and editPage wrap their body
\* in try { ... } catch (error) { handleError(error) }.
HasCatch(op) == op \in {"getPageContent", "editPage"}
HandlerCatch(op, msg) == IF HasCatch(op) THEN HandleError(msg) ELSE <<>>

\* A handler's promise rejects with msg.  viaTransport: the error was thrown by
\* fetch inside authenticatedFetch, whose own catch calls handleError first.
Throw(c, msg, viaTransport) ==
  [c EXCEPT !.pc = "thrown", !.err = msg,
            !.log = @ \o (IF viaTransport THEN HandleError(msg) ELSE <<>>)
                      \o HandlerCatch(c.op, msg)]
Return(c, value) == [c EXCEPT !.pc = "returned", !.out = value]

\* ---------------------------------------------------------------- upstream
\* What the upstream API may answer: fetch rejects, or resolves with a response.
StatusText == "Internal Server Error"
NetworkError == "request failed, reason: ECONNRESET"
\* label is the upstream's own account of the answer (the token it issued, the
\* outcome it reports, the text it holds); the adapter never reads it.
Rejected ==
  [rejected |-> TRUE, ok |-> FALSE, data |-> Undefined, setCookie |-> Null, label |-> NoField]
NotOk ==
  [rejected |-> FALSE, ok |-> FALSE, data |-> Undefined, setCookie |-> Null, label |-> NoField]
Ok(data, label) ==
  [rejected |-> FALSE, ok |-> TRUE, data |-> data, setCookie |-> Null, label |-> label]
OkWithCookie(data, cookie, label) ==
  [rejected |-> FALSE, ok |-> TRUE, data |-> data, setCookie |-> cookie, label |-> label]
Status(resp) == IF resp.rejected THEN "rejected" ELSE IF resp.ok THEN "ok" ELSE "not ok"

Tokens(r) == Obj([query |-> Obj([tokens |-> Obj(r)])])
CsrfResponses ==
  << Rejected, NotOk,
     Ok(EmptyObj, NoField),
     Ok(Obj([query |-> EmptyObj]), NoField),
     Ok(Tokens([logintoken |-> Str("lgA+\\")]), NoField),
     Ok(Tokens([csrftoken |-> Str("")]), ""),
     Ok(Tokens([csrftoken |-> Str("tokA+\\")]), "tokA+\\"),
     Ok(Tokens([csrftoken |-> Str("tokB+\\")]), "tokB+\\") >>

WriteResponses ==
  << Rejected, NotOk,
     Ok(EmptyObj, "other"),
     Ok(Obj([error |-> Obj([code |-> Str("badtoken")])]), "other"),
     Ok(Obj([edit |-> EmptyObj]), "other"),
     Ok(Obj([edit |-> Obj([result |-> Str("Success")])]), "edit.result Success"),
     Ok(Obj([edit |-> Obj([result |-> Str("success")])]), "other"),
     Ok(Obj([edit |-> Obj([result |-> Str("Failure")])]), "other"),
     Ok(Obj([delete |-> Obj([result |-> Str("Success")])]), "delete.result Success"),
     Ok(Obj([delete |-> Obj([title |-> Str("Main Page")])]), "other"),
     Ok(Obj([success |-> Num("1"), entity |-> Obj([id |-> Str("Q1")])]), "success 1"),
     Ok(Obj([success |-> Num("1")]), "success 1"),
     Ok(Obj([success |-> Str("1")]), "other"),
     Ok(Obj([success |-> Bool(TRUE)]), "other"),
     Ok(Obj([success |-> Num("0")]), "other") >>

\* The literal each mutating operation expects of a successful write.
ExpectedLabel(op) ==
  CASE op \in {"editPage", "createPage"} -> "edit.result Success"
    [] op = "deletePage" -> "delete.result Success"
    [] op \in {"editEntity", "addStatement"} -> "success 1"

\* ------------------------------------------------------- mutating handlers
\* The parts in which editPage, createPage, deletePage, editEntity and
\* addStatement differ.
ApiBase(op) == IF op \in WikiBaseOps THEN wikiBaseAPIBase ELSE mediaWikiAPIBase
TokenQuery(op) ==
  IF op \in WikiBaseOps THEN "action=query&meta=tokens&format=json&type=csrf"
  ELSE "action=query&meta=tokens&format=json"
WriteQuery(op) ==
  CASE op \in {"editPage", "createPage"} -> "action=edit&format=json"
    [] op = "deletePage" -> "action=delete&format=json"
    [] op = "editEntity" -> "action=wbeditentity&format=json"
    [] op = "addStatement" -> "action=wbcreateclaim&format=json"
TokenName(op) ==
  CASE op = "deletePage" -> "delete" [] op = "addStatement" -> "claim" [] OTHER -> "edit"
WriteVerb(op) ==
  CASE op = "editPage" -> "edit page"
    [] op = "createPage" -> "create page"
    [] op = "deletePage" -> "delete page"
    [] op = "editEntity" -> "edit entity"
    [] op = "addStatement" -> "add statement"

\* tokenData.query?.tokens?.csrftoken
Csrftoken(tokenData) == Get(Get(Get(tokenData, "query"), "tokens"), "csrftoken")

\* The value the handler returns for the decoded write response.
LooseEq(a, b) == a.v = b.v \/ (a.t = "boolean" /\ a.v = "true" /\ b.v = "1")
WriteResultLooseEquality(op, result) ==
  CASE op \in {"editPage", "createPage"} ->
         Obj([success |-> Bool(LooseEq(Get(Get(result, "edit"), "result"), Str("Success")))])
    [] op = "deletePage" ->
         Obj([success |-> Bool(LooseEq(Get(Get(result, "delete"), "result"), Str("Success")))])
    [] op = "editEntity" ->
         Obj([success |-> Bool(LooseEq(Get(result, "success"), Num("1"))),
              id |-> Get(Get(result, "entity"), "id")])
    [] op = "addStatement" ->
         Obj([success |-> Bool(LooseEq(Get(result, "success"), Num("1")))])
WriteResult(op, result) ==
  CASE op \in {"editPage", "createPage"} ->
         Obj([success |-> Bool(StrictEq(Get(Get(result, "edit"), "result"), Str("Success")))])
    [] op = "deletePage" ->
         Obj([success |-> Bool(StrictEq(Get(Get(result, "delete"), "result"), Str("Success")))])
    [] op = "editEntity" ->
         Obj([success |-> Bool(StrictEq(Get(result, "success"), Num("1"))),
              id |-> Get(Get(result, "entity"), "id")])
    [] op = "addStatement" ->
         Obj([success |-> Bool(StrictEq(Get(result, "success"), Num("1")))])

\* The GET for the token and the POST that carries it, as the handler passes
\* them to authenticatedFetch.
WriteRequestWrongVariable(op, url, token) ==
  Options("POST", url, WriteQuery(op), "application/x-www-form-urlencoded", NoHeader,
          JsString(Undefined))
TokenRequest(op, url) == Options("GET", url, TokenQuery(op), NoHeader, NoHeader, NoField)
WriteRequest(op, url, token) ==
  Options("POST", url, WriteQuery(op), "application/x-www-form-urlencoded", NoHeader,
          JsString(token))

\* A call slot: the handler's locals (op, url, id, token), the options it passed
\* to authenticatedFetch and the requests dispatched for them, its outcome (out
\* or err), what it printed (log), and the answers the upstream gave to its
\* requests, in order (status and label of each).
IdleCall ==
  [op |-> "none", pc |-> "idle", url |-> "", id |-> "", opts |-> <<>>, reqs |-> <<>>,
   token |-> Undefined, out |-> Undefined, err |-> "", log |-> <<>>, answers |-> <<>>]

\* await authenticatedFetch(url, options), up to the dispatch.
Dispatch(c, options) ==
  [c EXCEPT !.opts = @ \o <<options>>, !.reqs = @ \o <<AuthenticatedFetch(options)>>]

\* The upstream's account of the answer the slot has just handled.
Observe(c, resp) ==
  [c EXCEPT !.answers = @ \o <<[status |-> Status(resp), label |-> resp.label]>>]

\* A mutating handler is called: it builds its URLs from the base and awaits
\* the token fetch.
InvokeWrite(i, op) ==
  /\ calls[i].pc = "idle"
  /\ op \in WriteOps
  /\ calls' = [calls EXCEPT ![i] =
       Dispatch([IdleCall EXCEPT !.op = op, !.pc = "token", !.url = ApiBase(op)],
                TokenRequest(op, ApiBase(op)))]
  /\ UNCHANGED <<sessionCookie, mediaWikiAPIBase, wikiBaseAPIBase, cfg, nConfigures>>

\* The token fetch settles: the status and token checks, then the POST.
TokenStepSharedToken(c, resp) ==
  LET token == Csrftoken(resp.data)
      cached == {j \in DOMAIN calls : Truthy(calls[j].token)}
      used == IF cached = {} THEN token ELSE calls[CHOOSE j \in cached : TRUE].token
  IN
  IF resp.rejected THEN Throw(c, NetworkError, TRUE)
  ELSE IF ~resp.ok
  THEN Throw(c, "Failed to fetch " \o TokenName(c.op) \o " token: " \o StatusText, FALSE)
  ELSE IF ~Truthy(token)
  THEN Throw([c EXCEPT !.token = token],
             "Failed to retrieve " \o TokenName(c.op) \o " token.", FALSE)
  ELSE Dispatch([c EXCEPT !.pc = "write", !.token = used],
                WriteRequest(c.op, c.url, used))
TokenStepNoTokenCheck(c, resp) ==
  LET token == Csrftoken(resp.data) IN
  IF resp.rejected THEN Throw(c, NetworkError, TRUE)
  ELSE IF ~resp.ok
  THEN Throw(c, "Failed to fetch " \o TokenName(c.op) \o " token: " \o StatusText, FALSE)
  ELSE Dispatch([c EXCEPT !.pc = "write", !.token = token],
                WriteRequest(c.op, c.url, token))
TokenStepRetryOnce(c, resp) ==
  LET token == Csrftoken(resp.data) IN
  IF resp.rejected THEN Throw(c, NetworkError, TRUE)
  ELSE IF ~resp.ok /\ Len(c.reqs) < 2
  THEN Dispatch(c, TokenRequest(c.op, c.url))
  ELSE IF ~resp.ok
  THEN Throw(c, "Failed to fetch " \o TokenName(c.op) \o " token: " \o StatusText, FALSE)
  ELSE IF ~Truthy(token)
  THEN Throw([c EXCEPT !.token = token],
             "Failed to retrieve " \o TokenName(c.op) \o " token.", FALSE)
  ELSE Dispatch([c EXCEPT !.pc = "write", !.token = token],
                WriteRequest(c.op, c.url, token))
TokenStepNoStatusCheck(c, resp) ==
  LET token == Csrftoken(resp.data) IN
  IF resp.rejected THEN Throw(c, NetworkError, TRUE)
  ELSE IF ~Truthy(token)
  THEN Throw([c EXCEPT !.token = token],
             "Failed to retrieve " \o TokenName(c.op) \o " token.", FALSE)
  ELSE Dispatch([c EXCEPT !.pc = "write", !.token = token],
                WriteRequest(c.op, c.url, token))
TokenStep(c, resp) ==
  LET token == Csrftoken(resp.data) IN
  IF resp.rejected THEN Throw(c, NetworkError, TRUE)
  ELSE IF ~resp.ok
  THEN Throw(c, "Failed to fetch " \o TokenName(c.op) \o " token: " \o StatusText, FALSE)
  ELSE IF ~Truthy(token)
  THEN Throw([c EXCEPT !.token = token],
             "Failed to retrieve " \o TokenName(c.op) \o " token.", FALSE)
  ELSE Dispatch([c EXCEPT !.pc = "write", !.token = token],
                WriteRequest(c.op, c.url, token))

TokenResponse(i) ==
  /\ calls[i].pc = "token"
  /\ \E k \in DOMAIN CsrfResponses :
       calls' = [calls EXCEPT ![i] =
         Observe(TokenStep(calls[i], CsrfResponses[k]), CsrfResponses[k])]
  /\ UNCHANGED <<sessionCookie, mediaWikiAPIBase, wikiBaseAPIBase, cfg, nConfigures>>

\* The write settles: the status check, then the result.
WriteStep(c, resp) ==
  IF resp.rejected THEN Throw(c, NetworkError, TRUE)
  ELSE IF ~resp.ok
  THEN Throw(c, "Failed to " \o WriteVerb(c.op) \o ": " \o StatusText, FALSE)
  ELSE Return(c, WriteResult(c.op, resp.data))

WriteResponse(i) ==
  /\ calls[i].pc = "write"
  /\ \E k \in DOMAIN WriteResponses :
       calls' = [calls EXCEPT ![i] =
         Observe(WriteStep(calls[i], WriteResponses[k]), WriteResponses[k])]
  /\ UNCHANGED <<sessionCookie, mediaWikiAPIBase, wikiBaseAPIBase, cfg, nConfigures>>


\* ------------------------------------------------------- read-only handlers
Title == "Main Page"
EntityIds == {"Q1", "Q2"}

Rev(text) == Obj([k \in {"*"} |-> Str(text)])
Pages(r) == Obj([query |-> Obj([pages |-> Obj(r)])])
PageInfo == [pageid |-> Num("12"), touched |-> Str("2024-01-01T00:00:00Z")]
\* Labels of a pages answer: the text of the first revision's content field of
\* the first page, or why there is none.
NoPage == "<no page entry>"
NoRevisions == "<page entry without revisions>"
NoContentField == "<first revision without content field>"
PagesResponses ==
  << Rejected, NotOk,
     Ok(EmptyObj, NoPage),
     Ok(Obj([query |-> EmptyObj]), NoPage),
     Ok(Pages([k \in {} |-> Undefined]), NoPage),
     Ok(Pages("-1" :> Obj([title |-> Str(Title), missing |-> Str("")])), NoRevisions),
     Ok(Pages("12" :> Obj(PageInfo @@ [revisions |-> Arr(<<>>)])), NoRevisions),
     Ok(Pages("12" :> Obj(PageInfo @@ [revisions |-> Arr(<<EmptyObj>>)])), NoContentField),
     Ok(Pages("12" :> Obj(PageInfo @@ [revisions |-> Arr(<<Rev("")>>)])), ""),
     Ok(Pages("12" :> Obj(PageInfo @@ [revisions |-> Arr(<<Rev("Hello")>>)])), "Hello"),
     Ok(Pages("12" :> Obj(PageInfo @@ [revisions |-> Arr(<<Rev("New"), Rev("Old")>>),
                                       contributors |-> Arr(<<Obj([name |-> Str("Ann")])>>)])),
        "New"),
     Ok(Pages(("34" :> Obj([revisions |-> Arr(<<Rev("Other")>>)]))
              @@ ("12" :> Obj(PageInfo @@ [revisions |-> Arr(<<Rev("Hello")>>)]))),
        "Hello") >>

\* Labels of the other read answers: whether the expected field is there.
FieldAbsent == "<expected field absent>"
FieldPresent == "<expected field present>"
SearchResponses ==
  << Rejected, NotOk,
     Ok(EmptyObj, FieldAbsent),
     Ok(Obj([query |-> EmptyObj]), FieldAbsent),
     Ok(Obj([query |-> Obj([search |-> Arr(<<>>)])]), FieldPresent),
     Ok(Obj([query |-> Obj([search |-> Arr(<<Obj([title |-> Str("A")]),
                                              Obj([title |-> Str("B")])>>)])]),
        FieldPresent) >>

\* The entities answer holds Q1 only.
EntityResponses ==
  << Rejected, NotOk,
     Ok(EmptyObj, FieldAbsent),
     Ok(Obj([entities |-> EmptyObj]), FieldAbsent),
     Ok(Obj([entities |-> Obj("Q1" :> Obj([id |-> Str("Q1"), type |-> Str("item")]))]),
        "Q1") >>

EntitySearchResponses ==
  << Rejected, NotOk,
     Ok(EmptyObj, FieldAbsent),
     Ok(Obj([search |-> Arr(<<>>)]), FieldPresent),
     Ok(Obj([search |-> Arr(<<Obj([id |-> Str("Q1"), label |-> Str("one")]),
                              Obj([id |-> Str("Q2")])>>)]), FieldPresent) >>

\* array?.map(f) || [] for the three projections the handlers use.
MapTitles(a) ==
  IF a.t = "array" THEN Arr([k \in DOMAIN a.v |-> Get(a.v[k], "title")]) ELSE Arr(<<>>)
MapNames(a) ==
  IF a.t = "array" THEN Arr([k \in DOMAIN a.v |-> Get(a.v[k], "name")]) ELSE Arr(<<>>)
MapIdLabels(a) ==
  IF a.t = "array"
  THEN Arr([k \in DOMAIN a.v |->
              Obj([id |-> Get(a.v[k], "id"), label |-> Get(a.v[k], "label")])])
  ELSE Arr(<<>>)

\* const page = pages ? Object.values(pages)[0] : null
FirstPage(data) ==
  LET pages == Get(Get(data, "query"), "pages") IN
  IF Truthy(pages) THEN At(ObjectValues(pages), 0) ELSE Undefined

ReadQuery(op) ==
  CASE op = "getPageContent" -> "action=query&format=json&prop=revisions&rvprop=content"
    [] op = "getPageSearchResults" -> "action=query&list=search&format=json"
    [] op = "getPageMetadata" -> "action=query&format=json&prop=info|contributors"
    [] op = "getEntityData" -> "action=wbgetentities&format=json"
    [] op = "searchEntities" -> "action=wbsearchentities&format=json"
ReadRequest(op, url) == Options("GET", url, ReadQuery(op), NoHeader, NoHeader, NoField)

\* A read-only handler is called: one GET through authenticatedFetch.
InvokeReadAfterLogin(i, op, id) ==
  /\ cfg.pc = "idle"
  /\ calls[i].pc = "idle"
  /\ op \in ReadOps
  /\ id \in (IF op = "getEntityData" THEN EntityIds ELSE {""})
  /\ calls' = [calls EXCEPT ![i] =
       Dispatch([IdleCall EXCEPT !.op = op, !.pc = "read", !.url = ApiBase(op), !.id = id],
                ReadRequest(op, ApiBase(op)))]
  /\ UNCHANGED <<sessionCookie, mediaWikiAPIBase, wikiBaseAPIBase, cfg, nConfigures>>
InvokeRead(i, op, id) ==
  /\ calls[i].pc = "idle"
  /\ op \in ReadOps
  /\ id \in (IF op = "getEntityData" THEN EntityIds ELSE {""})
  /\ calls' = [calls EXCEPT ![i] =
       Dispatch([IdleCall EXCEPT !.op = op, !.pc = "read", !.url = ApiBase(op), !.id = id],
                ReadRequest(op, ApiBase(op)))]
  /\ UNCHANGED <<sessionCookie, mediaWikiAPIBase, wikiBaseAPIBase, cfg, nConfigures>>

\* getPageContent, from the response on.
ContentStep(c, resp) ==
  LET content == Get(At(Get(FirstPage(resp.data), "revisions"), 0), "*") IN
  IF resp.rejected THEN Throw(c, NetworkError, TRUE)
  ELSE IF ~resp.ok THEN Throw(c, "Failed to fetch page content: " \o StatusText, FALSE)
  ELSE IF ~Truthy(content)
  THEN Throw(c, "Page \"" \o Title \o "\" not found or has no content.", FALSE)
  ELSE Return(c, Obj([content |-> content]))

\* getPageSearchResults, from the response on.
SearchStep(c, resp) ==
  IF resp.rejected THEN Throw(c, NetworkError, TRUE)
  ELSE IF ~resp.ok THEN Throw(c, "Failed to search pages: " \o StatusText, FALSE)
  ELSE Return(c, Obj([results |->
         MapTitles(Get(Get(resp.data, "query"), "search"))]))

\* getPageMetadata, from the response on.
MetadataStep(c, resp) ==
  LET page == FirstPage(resp.data) IN
  IF resp.rejected THEN Throw(c, NetworkError, TRUE)
  ELSE IF ~resp.ok THEN Throw(c, "Failed to fetch page metadata: " \o StatusText, FALSE)
  ELSE IF ~Truthy(page) THEN Throw(c, "Page \"" \o Title \o "\" not found.", FALSE)
  ELSE Return(c, Obj([pageId |-> Get(page, "pageid"), lastEdited |-> Get(page, "touched"),
                      contributors |-> MapNames(Get(page, "contributors"))]))

\* getEntityData, from the response on.
EntityStep(c, resp) ==
  LET entity == Get(Get(resp.data, "entities"), c.id) IN
  IF resp.rejected THEN Throw(c, NetworkError, TRUE)
  ELSE IF ~resp.ok THEN Throw(c, "Failed to fetch entity data: " \o StatusText, FALSE)
  ELSE IF ~Truthy(entity) THEN Throw(c, "Entity \"" \o c.id \o "\" not found.", FALSE)
  ELSE Return(c, Obj([entity |-> entity]))

\* searchEntities, from the response on.
EntitySearchStep(c, resp) ==
  IF resp.rejected THEN Throw(c, NetworkError, TRUE)
  ELSE IF ~resp.ok THEN Throw(c, "Failed to search entities: " \o StatusText, FALSE)
  ELSE Return(c, Obj([results |-> MapIdLabels(Get(resp.data, "search"))]))

ReadResponses(op) ==
  CASE op \in {"getPageContent", "getPageMetadata"} -> PagesResponses
    [] op = "getPageSearchResults" -> SearchResponses
    [] op = "getEntityData" -> EntityResponses
    [] op = "searchEntities" -> EntitySearchResponses
ReadStep(c, resp) ==
  CASE c.op = "getPageContent" -> ContentStep(c, resp)
    [] c.op = "getPageSearchResults" -> SearchStep(c, resp)
    [] c.op = "getPageMetadata" -> MetadataStep(c, resp)
    [] c.op = "getEntityData" -> EntityStep(c, resp)
    [] c.op = "searchEntities" -> EntitySearchStep(c, resp)

ReadResponseStoringCookie(i) ==
  /\ calls[i].pc = "read"
  /\ \E k \in DOMAIN ReadResponses(calls[i].op) :
       /\ calls' = [calls EXCEPT ![i] =
            Observe(ReadStep(calls[i], ReadResponses(calls[i].op)[k]),
                    ReadResponses(calls[i].op)[k])]
       /\ sessionCookie' = ReadResponses(calls[i].op)[k].setCookie
  /\ UNCHANGED <<mediaWikiAPIBase, wikiBaseAPIBase, cfg, nConfigures>>
ReadResponse(i) ==
  /\ calls[i].pc = "read"
  /\ \E k \in DOMAIN ReadResponses(calls[i].op) :
       calls' = [calls EXCEPT ![i] =
         Observe(ReadStep(calls[i], ReadResponses(calls[i].op)[k]),
                 ReadResponses(calls[i].op)[k])]
  /\ UNCHANGED <<sessionCookie, mediaWikiAPIBase, wikiBaseAPIBase, cfg, nConfigures>>


\* ------------------------------------------------- onConfigure, loginAsBot
OverrideMediaWikiAPIBase == "https://my.mediawiki.instance/api.php"
OverrideWikiBaseAPIBase == "https://my.wikibase.instance/api.php"
NotAUrl == "not a url"

\* The config objects a client may pass (every field optional).
Configs ==
  [mediaWikiAPIBase : {Absent, OverrideMediaWikiAPIBase, NotAUrl},
   wikiBaseAPIBase : {Absent, OverrideWikiBaseAPIBase},
   botUsername : {Absent, "MyBotUsername"},
   botPassword : {Absent, "MyBotPassword"}]

\* ConfigSchema.parse: z.string().url().optional() for the two bases.
IsUrl(s) == s \in {OverrideMediaWikiAPIBase, OverrideWikiBaseAPIBase,
                   DefaultMediaWikiAPIBase, DefaultWikiBaseAPIBase}
ConfigSchemaAccepts(config) ==
  /\ config.mediaWikiAPIBase = Absent \/ IsUrl(config.mediaWikiAPIBase)
  /\ config.wikiBaseAPIBase = Absent \/ IsUrl(config.wikiBaseAPIBase)

\* if (parsedConfig.botUsername && parsedConfig.botPassword)
CredentialsProvided(config) ==
  TruthyStr(config.botUsername) /\ TruthyStr(config.botPassword)

LoginTokenResponses ==
  << Rejected, NotOk,
     Ok(EmptyObj, NoField),
     Ok(Tokens([csrftoken |-> Str("tokA+\\")]), NoField),
     Ok(Tokens([logintoken |-> Str("")]), ""),
     Ok(Tokens([logintoken |-> Str("lgA+\\")]), "lgA+\\") >>

\* Labels of a login answer: the upstream reports success, or the reason it
\* gives for refusing (NoField when it gives none).
Login(r) == Obj([login |-> Obj(r)])
LoginSuccess == "login.result Success"
WrongPassword == "Incorrect password entered."
LoginResponses ==
  << Rejected, NotOk,
     OkWithCookie(EmptyObj, "sid=A", NoField),
     OkWithCookie(Login([result |-> Str("Failed"), reason |-> Str(WrongPassword)]),
                  Null, WrongPassword),
     OkWithCookie(Login([result |-> Str("Failed"), reason |-> Str(WrongPassword)]),
                  "sid=B", WrongPassword),
     OkWithCookie(Login([result |-> Str("NeedToken")]), "sid=A", NoField),
     OkWithCookie(Login([result |-> Str("Success")]), Null, LoginSuccess),
     OkWithCookie(Login([result |-> Str("Success")]), "", LoginSuccess),
     OkWithCookie(Login([result |-> Str("Success")]), "sid=A", LoginSuccess),
     OkWithCookie(Login([result |-> Str("Success")]), "sid=B", LoginSuccess) >>

\* The onConfigure call: the config it was given, the requests loginAsBot has
\* dispatched, its outcome (pending, resolved, rejected with err), what it
\* printed, the status and set-cookie header of the last answer, and the
\* answers the upstream gave to its requests, in order (status and label).
IdleCfg ==
  [pc |-> "idle", config |-> [mediaWikiAPIBase |-> Absent, wikiBaseAPIBase |-> Absent,
                              botUsername |-> Absent, botPassword |-> Absent],
   reqs |-> <<>>, outcome |-> "none", err |-> "", log |-> <<>>,
   status |-> "none", setCookie |-> Null, answers |-> <<>>]

LoginTokenRequest(url) ==
  Options("GET", url, "action=query&meta=tokens&type=login&format=json",
          NoHeader, NoHeader, NoField)
LoginRequest(url, loginToken) ==
  Options("POST", url, "action=login&format=json", "application/x-www-form-urlencoded",
          NoHeader, JsString(loginToken))

\* onConfigure(config): parse, apply the base overrides, then loginAsBot up to
\* its first await (the login token fetch) when both credentials are given.
OnConfigureLoginFirst(config) ==
  /\ cfg.pc = "idle"
  /\ nConfigures < MaxConfigures
  /\ nConfigures' = nConfigures + 1
  /\ IF ~ConfigSchemaAccepts(config)
     THEN /\ cfg' = [IdleCfg EXCEPT !.config = config, !.outcome = "rejected",
                                    !.err = "ZodError"]
          /\ UNCHANGED <<mediaWikiAPIBase, wikiBaseAPIBase>>
     ELSE IF CredentialsProvided(config)
     THEN /\ cfg' = [IdleCfg EXCEPT !.config = config, !.pc = "loginToken",
                                    !.outcome = "pending",
                                    !.reqs = <<Fetch(LoginTokenRequest(mediaWikiAPIBase))>>]
          /\ UNCHANGED <<mediaWikiAPIBase, wikiBaseAPIBase>>
     ELSE /\ mediaWikiAPIBase' = IF TruthyStr(config.mediaWikiAPIBase)
                                 THEN config.mediaWikiAPIBase ELSE mediaWikiAPIBase
          /\ wikiBaseAPIBase' = IF TruthyStr(config.wikiBaseAPIBase)
                                THEN config.wikiBaseAPIBase ELSE wikiBaseAPIBase
          /\ cfg' = [IdleCfg EXCEPT !.config = config, !.outcome = "resolved"]
  /\ UNCHANGED <<sessionCookie, calls>>
OnConfigure(config) ==
  /\ cfg.pc = "idle"
  /\ nConfigures < MaxConfigures
  /\ nConfigures' = nConfigures + 1
  /\ IF ~ConfigSchemaAccepts(config)
     THEN /\ cfg' = [IdleCfg EXCEPT !.config = config, !.outcome = "rejected",
                                    !.err = "ZodError"]
          /\ UNCHANGED <<mediaWikiAPIBase, wikiBaseAPIBase>>
     ELSE /\ mediaWikiAPIBase' = IF TruthyStr(config.mediaWikiAPIBase)
                                 THEN config.mediaWikiAPIBase ELSE mediaWikiAPIBase
          /\ wikiBaseAPIBase' = IF TruthyStr(config.wikiBaseAPIBase)
                                THEN config.wikiBaseAPIBase ELSE wikiBaseAPIBase
          /\ IF CredentialsProvided(config)
             THEN cfg' = [IdleCfg EXCEPT !.config = config, !.pc = "loginToken",
                                         !.outcome = "pending",
                                         !.reqs = <<Fetch(LoginTokenRequest(mediaWikiAPIBase'))>>]
             ELSE cfg' = [IdleCfg EXCEPT !.config = config, !.outcome = "resolved"]
  /\ UNCHANGED <<sessionCookie, calls>>

ConfigureFails(c, msg) == [c EXCEPT !.pc = "idle", !.outcome = "rejected", !.err = msg]

\* loginAsBot, step 1 settles: the login token checks, then the login POST.
LoginTokenStepNoTokenCheck(c, resp) ==
  LET loginToken == Get(Get(Get(resp.data, "query"), "tokens"), "logintoken") IN
  IF resp.rejected THEN ConfigureFails(c, NetworkError)
  ELSE IF ~resp.ok THEN ConfigureFails(c, "Failed to fetch login token: " \o StatusText)
  ELSE [c EXCEPT !.pc = "login",
                 !.reqs = @ \o <<Fetch(LoginRequest(c.reqs[1].url, loginToken))>>]
LoginTokenStep(c, resp) ==
  LET loginToken == Get(Get(Get(resp.data, "query"), "tokens"), "logintoken") IN
  IF resp.rejected THEN ConfigureFails(c, NetworkError)
  ELSE IF ~resp.ok THEN ConfigureFails(c, "Failed to fetch login token: " \o StatusText)
  ELSE IF ~Truthy(loginToken) THEN ConfigureFails(c, "Failed to retrieve login token.")
  ELSE [c EXCEPT !.pc = "login",
                 !.reqs = @ \o <<Fetch(LoginRequest(c.reqs[1].url, loginToken))>>]

LoginTokenResponse ==
  /\ cfg.pc = "loginToken"
  /\ \E k \in DOMAIN LoginTokenResponses :
       cfg' = [LoginTokenStep(cfg, LoginTokenResponses[k])
                 EXCEPT !.status = Status(LoginTokenResponses[k]),
                        !.answers = @ \o <<[status |-> Status(LoginTokenResponses[k]),
                                            label |-> LoginTokenResponses[k].label]>>]
  /\ UNCHANGED <<sessionCookie, mediaWikiAPIBase, wikiBaseAPIBase, calls, nConfigures>>

\* loginResult.login?.result !== "Success"
LoginSucceededAnyResult(loginResult) ==
  Truthy(Get(Get(loginResult, "login"), "result"))
LoginSucceeded(loginResult) ==
  StrictEq(Get(Get(loginResult, "login"), "result"), Str("Success"))
\* loginResult.login?.reason || "Unknown reason"
LoginReason(loginResult) ==
  LET reason == Get(Get(loginResult, "login"), "reason") IN
  IF Truthy(reason) THEN JsString(reason) ELSE "Unknown reason"

\* loginAsBot, step 2 settles: the status and result checks, then the session
\* cookie is stored (headers.get gives null when there is no set-cookie header).
LoginStep(c, resp) ==
  IF resp.rejected THEN ConfigureFails(c, NetworkError)
  ELSE IF ~resp.ok THEN ConfigureFails(c, "Failed to log in: " \o StatusText)
  ELSE IF ~LoginSucceeded(resp.data)
  THEN ConfigureFails(c, "Login failed: " \o LoginReason(resp.data))
  ELSE [c EXCEPT !.pc = "idle", !.outcome = "resolved",
                 !.log = <<"Bot logged in successfully.">>]
SessionCookieStoredBeforeChecks(c, resp) ==
  IF ~resp.rejected /\ resp.ok THEN resp.setCookie ELSE sessionCookie
SessionCookieKeptWithoutHeader(c, resp) ==
  IF LoginStep(c, resp).outcome = "resolved" /\ resp.setCookie # Null
  THEN resp.setCookie ELSE sessionCookie
SessionCookieAfterLogin(c, resp) ==
  IF LoginStep(c, resp).outcome = "resolved" THEN resp.setCookie ELSE sessionCookie

LoginResponse ==
  /\ cfg.pc = "login"
  /\ \E k \in DOMAIN LoginResponses :
       /\ cfg' = [LoginStep(cfg, LoginResponses[k])
                    EXCEPT !.status = Status(LoginResponses[k]),
                           !.setCookie = LoginResponses[k].setCookie,
                           !.answers = @ \o <<[status |-> Status(LoginResponses[k]),
                                               label |-> LoginResponses[k].label]>>]
       /\ sessionCookie' = SessionCookieAfterLogin(cfg, LoginResponses[k])
  /\ UNCHANGED <<mediaWikiAPIBase, wikiBaseAPIBase, calls, nConfigures>>

\* The caller takes the outcome of a settled call; the slot is free again.
Settle(i) ==
  /\ calls[i].pc \in {"returned", "thrown"}
  /\ calls' = [calls EXCEPT ![i] = IdleCall]
  /\ UNCHANGED <<sessionCookie, mediaWikiAPIBase, wikiBaseAPIBase, cfg, nConfigures>>

\* ------------------------------------------------------------ specification
\* The adapter: configuration and login, with one handler call at a time in
\* flight (calls follow one another without bound).
Init ==
  /\ sessionCookie = Null
  /\ mediaWikiAPIBase = DefaultMediaWikiAPIBase
  /\ wikiBaseAPIBase = DefaultWikiBaseAPIBase
  /\ calls = [i \in {1} |-> IdleCall]
  /\ cfg = IdleCfg
  /\ nConfigures = 0

Next ==
  \/ \E config \in Configs : OnConfigure(config)
  \/ LoginTokenResponse
  \/ LoginResponse
  \/ \E i \in DOMAIN calls, op \in WriteOps : InvokeWrite(i, op)
  \/ \E i \in DOMAIN calls : TokenResponse(i)
  \/ \E i \in DOMAIN calls : WriteResponse(i)
  \/ \E i \in DOMAIN calls, op \in ReadOps, id \in EntityIds \cup {""} : InvokeRead(i, op, id)
  \/ \E i \in DOMAIN calls : ReadResponse(i)
  \/ \E i \in DOMAIN calls : Settle(i)

Spec == Init /\ [][Next]_vars


\* Overlapping calls of the mutating handlers, each slot called once, in the
\* state the module starts in (no configure call: the session does not change).
InitCalls ==
  /\ sessionCookie = Null
  /\ mediaWikiAPIBase = DefaultMediaWikiAPIBase
  /\ wikiBaseAPIBase = DefaultWikiBaseAPIBase
  /\ calls = [i \in 1..MaxCalls |-> IdleCall]
  /\ cfg = IdleCfg
  /\ nConfigures = 0

NextCalls ==
  \/ \E i \in DOMAIN calls, op \in WriteOps : InvokeWrite(i, op)
  \/ \E i \in DOMAIN calls : TokenResponse(i)
  \/ \E i \in DOMAIN calls : WriteResponse(i)

SpecCalls == InitCalls /\ [][NextCalls]_vars

\* authenticatedFetch on its own: a caller passes it options of its choice,
\* under every value sessionCookie can have (null at start, or what a
\* successful login has stored).
LoggedInCfg(cookie) ==
  [IdleCfg EXCEPT !.config.botUsername = "MyBotUsername",
                  !.config.botPassword = "MyBotPassword",
                  !.reqs = <<Fetch(LoginTokenRequest(DefaultMediaWikiAPIBase)),
                             Fetch(LoginRequest(DefaultMediaWikiAPIBase, Str("lgA+\\")))>>,
                  !.outcome = "resolved", !.log = <<"Bot logged in successfully.">>,
                  !.status = "ok", !.setCookie = cookie,
                  !.answers = <<[status |-> "ok", label |-> "lgA+\\"],
                                [status |-> "ok", label |-> LoginSuccess]>>]

CallerOptions ==
  { Options(method, url, query, ctype, cookie, NoField) :
      method \in {"GET", "POST"},
      url \in {DefaultMediaWikiAPIBase, DefaultWikiBaseAPIBase},
      query \in {"action=query&meta=tokens&format=json", "action=edit&format=json"},
      ctype \in {NoHeader, "application/x-www-form-urlencoded"},
      cookie \in {NoHeader, "caller=1", "sid=A"} }

AuthenticatedFetchCall(i, options) ==
  /\ calls[i].pc = "idle"
  /\ calls' = [calls EXCEPT ![i] =
       Dispatch([IdleCall EXCEPT !.op = "authenticatedFetch", !.pc = "sent",
                                 !.url = options.url], options)]
  /\ UNCHANGED <<sessionCookie, mediaWikiAPIBase, wikiBaseAPIBase, cfg, nConfigures>>

InitTransport ==
  /\ mediaWikiAPIBase = DefaultMediaWikiAPIBase
  /\ wikiBaseAPIBase = DefaultWikiBaseAPIBase
  /\ calls = [i \in {1} |-> IdleCall]
  /\ \/ sessionCookie = Null /\ cfg = IdleCfg /\ nConfigures = 0
     \/ \E cookie \in {"", "sid=A", "sid=B"} :
          sessionCookie = cookie /\ cfg = LoggedInCfg(cookie) /\ nConfigures = 1

NextTransport ==
  \E i \in DOMAIN calls, options \in CallerOptions : AuthenticatedFetchCall(i, options)

SpecTransport == InitTransport /\ [][NextTransport]_vars


\* The adapter under an upstream that answers every request in the end: weak
\* fairness on the steps that handle an answer (calls of the handlers and of
\* onConfigure are the client's choice and stay unforced).  Configure calls
\* leave the bases alone here.
LoginConfigs ==
  {config \in Configs : /\ config.mediaWikiAPIBase = Absent
                        /\ config.wikiBaseAPIBase = Absent}

NextLive ==
  \/ \E config \in LoginConfigs : OnConfigure(config)
  \/ LoginTokenResponse
  \/ LoginResponse
  \/ \E i \in DOMAIN calls, op \in WriteOps : InvokeWrite(i, op)
  \/ \E i \in DOMAIN calls : TokenResponse(i)
  \/ \E i \in DOMAIN calls : WriteResponse(i)
  \/ \E i \in DOMAIN calls, op \in ReadOps, id \in EntityIds \cup {""} : InvokeRead(i, op, id)
  \/ \E i \in DOMAIN calls : ReadResponse(i)
  \/ \E i \in DOMAIN calls : Settle(i)

UpstreamAnswers ==
  /\ WF_vars(LoginTokenResponse)
  /\ WF_vars(LoginResponse)
  /\ \A i \in {1} : /\ WF_vars(TokenResponse(i))
                    /\ WF_vars(WriteResponse(i))
                    /\ WF_vars(ReadResponse(i))

SpecLive == Init /\ [][NextLive]_vars /\ UpstreamAnswers

\* ------------------------------------------------------------------ claims
IsTokenFetch(c, req) ==
  req.method = "GET" /\ req.query = TokenQuery(c.op) /\ req.token = NoField
IsWrite(c, req) == req.method = "POST" /\ req.query = WriteQuery(c.op)

\* C1: in every invocation of a mutating operation the write request comes
\* after a token fetch of the same invocation, and its token field is the token
\* that fetch was answered with, character for character.
C1_TokenFetchPrecedesWrite ==
  \A i \in DOMAIN calls :
    LET c == calls[i] IN
    c.op \in WriteOps =>
      \A k \in DOMAIN c.reqs :
        IsWrite(c, c.reqs[k]) =>
          /\ k = 2
          /\ IsTokenFetch(c, c.reqs[1])
          /\ Len(c.answers) >= 1
          /\ c.answers[1].status = "ok"
          /\ c.reqs[k].token = c.answers[1].label

\* C1 happens: a mutating call has returned after writing with the token its
\* own fetch was given.
C1_Witness ==
  \E i \in DOMAIN calls :
    /\ calls[i].op = "deletePage"
    /\ calls[i].pc = "returned"
    /\ Len(calls[i].reqs) = 2
    /\ calls[i].answers[1].label = "tokB+\\"
    /\ calls[i].reqs[2].token = "tokB+\\"

\* C2: when the token fetch is answered with a success status but no
\* query.tokens.csrftoken, the mutating operation fails with its token-missing
\* error and has issued no write request.
C2_MissingTokenNoWrite ==
  \A i \in DOMAIN calls :
    LET c == calls[i] IN
    (/\ c.op \in WriteOps
     /\ Len(c.answers) >= 1
     /\ c.answers[1].status = "ok"
     /\ c.answers[1].label = NoField) =>
      /\ c.pc = "thrown"
      /\ c.err = "Failed to retrieve " \o TokenName(c.op) \o " token."
      /\ Len(c.reqs) = 1
      /\ IsTokenFetch(c, c.reqs[1])

\* C2 happens: an entity edit whose token answer had no token field has failed.
C2_Witness ==
  \E i \in DOMAIN calls :
    /\ calls[i].op = "editEntity"
    /\ Len(calls[i].answers) = 1
    /\ calls[i].answers[1].status = "ok"
    /\ calls[i].answers[1].label = NoField
    /\ calls[i].pc = "thrown"


\* C3: a configure call that supplies exactly one of botUsername and
\* botPassword fails, and no request (login token fetch or login POST) is made.
C3_PartialCredentialsFail ==
  LET hasUsername == cfg.config.botUsername # Absent
      hasPassword == cfg.config.botPassword # Absent
  IN  (cfg.outcome # "none" /\ hasUsername # hasPassword) =>
        cfg.outcome = "rejected" /\ cfg.reqs = <<>>

\* A Bot Login has run to its end and resolved (the last configure call).
LoginDone == cfg.outcome = "resolved" /\ Len(cfg.reqs) = 2
\* Call slot i dispatches a request in this step.
Dispatched(i) == Len(calls'[i].reqs) > Len(calls[i].reqs)
LastReq(c) == c.reqs[Len(c.reqs)]

\* C4, as claimed: once a Bot Login has completed successfully a credential is
\* installed, and every request dispatched through authenticatedFetch from then
\* on carries it in its Cookie header.
C4_CredentialInstalledAndSent ==
  [][ /\ LoginDone' => TruthyStr(sessionCookie')
      /\ \A i \in DOMAIN calls :
           (LoginDone /\ Dispatched(i)) =>
             /\ TruthyStr(sessionCookie)
             /\ LastReq(calls'[i]).headers.Cookie = sessionCookie ]_vars

\* C4, amended: a Bot Login that completes successfully on a response with a
\* non-empty set-cookie header installs that header's value as the credential,
\* and every request dispatched through authenticatedFetch while a non-empty
\* credential is installed carries the installed value in its Cookie header.
C4_CredentialSentWhenInstalled ==
  [][ /\ (cfg.pc = "login" /\ LoginDone' /\ TruthyStr(cfg'.setCookie)) =>
           sessionCookie' = cfg'.setCookie
      /\ \A i \in DOMAIN calls :
           (Dispatched(i) /\ TruthyStr(sessionCookie)) =>
             LastReq(calls'[i]).headers.Cookie = sessionCookie ]_vars

\* C4 happens: after the first login installed sid=A, a handler request went
\* out with Cookie sid=A.
C4_Witness ==
  /\ nConfigures = 1
  /\ LoginDone
  /\ sessionCookie = "sid=A"
  /\ \E i \in DOMAIN calls :
       /\ calls[i].op \in Ops
       /\ Len(calls[i].reqs) >= 1
       /\ LastReq(calls[i]).headers.Cookie = "sid=A"

\* C5, as claimed: once a credential is installed, no later step (handler,
\* configure or login) changes or clears it.
C5_WriteOnce ==
  [][sessionCookie # Null => sessionCookie' = sessionCookie]_vars

\* C5, amended: the one process-wide credential is changed by nothing but the
\* completion of a successful Bot Login, which sets it to that login answer's
\* set-cookie header (null when absent), overwriting what an earlier login
\* installed; handler calls and failed configure calls leave it as it is.
C5_OnlySuccessfulLoginWrites ==
  [][sessionCookie' # sessionCookie =>
       /\ cfg.pc = "login"
       /\ cfg'.outcome = "resolved"
       /\ cfg'.status = "ok"
       /\ sessionCookie' = cfg'.setCookie]_vars

\* C5 happens: a second successful login has replaced sid=A (still on a request
\* dispatched earlier) by sid=B.
C5_Witness ==
  /\ nConfigures = 2
  /\ LoginDone
  /\ sessionCookie = "sid=B"
  /\ \E i \in DOMAIN calls :
       Len(calls[i].reqs) >= 1 /\ calls[i].reqs[1].headers.Cookie = "sid=A"

\* C6: a write answered with a success status and any discriminator other than
\* the expected literal (or none) makes the mutating operation return
\* success = false without throwing; a write answered with a non-success status
\* makes it throw without returning a result.
C6_WriteOutcome ==
  \A i \in DOMAIN calls :
    LET c == calls[i] IN
    (c.op \in WriteOps /\ Len(c.answers) = 2) =>
      /\ (c.answers[2].status = "ok" /\ c.answers[2].label # ExpectedLabel(c.op)) =>
           /\ c.pc = "returned"
           /\ c.err = ""
           /\ Get(c.out, "success") = Bool(FALSE)
      /\ c.answers[2].status = "not ok" =>
           /\ c.pc = "thrown"
           /\ c.out.t = "undefined"
           /\ c.err = "Failed to " \o WriteVerb(c.op) \o ": " \o StatusText

\* C6 happens: a statement addition answered ok without the literal has
\* returned success = false.
C6_Witness ==
  \E i \in DOMAIN calls :
    /\ calls[i].op = "addStatement"
    /\ Len(calls[i].answers) = 2
    /\ calls[i].answers[2].status = "ok"
    /\ calls[i].answers[2].label = "other"
    /\ calls[i].pc = "returned"
    /\ Get(calls[i].out, "success") = Bool(FALSE)


TokenFetches(c) == {k \in DOMAIN c.reqs : IsTokenFetch(c, c.reqs[k])}
Writes(c) == {k \in DOMAIN c.reqs : IsWrite(c, c.reqs[k])}

\* C7: no token is cached or reused.  Every mutating invocation that reaches
\* its write has issued exactly one token fetch of its own (so N such
\* invocations issue N fetches) and exactly one write, and the write carries
\* the token that own fetch was answered with, not the different token another
\* (earlier or overlapping) invocation was given.
C7_FreshTokenPerInvocation ==
  \A i \in DOMAIN calls :
    LET c == calls[i] IN
    (c.op \in WriteOps /\ Writes(c) # {}) =>
      /\ Cardinality(TokenFetches(c)) = 1
      /\ Cardinality(Writes(c)) = 1
      /\ Len(c.answers) >= 1
      /\ \A k \in Writes(c) :
           /\ c.reqs[k].token = c.answers[1].label
           /\ \A j \in DOMAIN calls \ {i} :
                (Len(calls[j].answers) >= 1
                 /\ calls[j].answers[1].label # c.answers[1].label) =>
                  c.reqs[k].token # calls[j].answers[1].label

\* C7 happens: two overlapping calls of the same operation were given different
\* tokens and each has written with its own.
C7_Witness ==
  \E i, j \in DOMAIN calls :
    /\ i # j
    /\ calls[i].op = "editPage" /\ calls[j].op = "editPage"
    /\ Len(calls[i].reqs) = 2 /\ Len(calls[j].reqs) = 2
    /\ calls[i].answers[1].label = "tokA+\\" /\ calls[i].reqs[2].token = "tokA+\\"
    /\ calls[j].answers[1].label = "tokB+\\" /\ calls[j].reqs[2].token = "tokB+\\"

\* C8: authenticatedFetch never overwrites a Cookie header the caller set: with
\* a credential installed and a Cookie in the caller's headers, the request
\* that goes out carries the caller's value.
C8_CallerCookieKept ==
  \A i \in DOMAIN calls :
    LET c == calls[i] IN
    (/\ c.op = "authenticatedFetch"
     /\ c.pc = "sent"
     /\ TruthyStr(sessionCookie)
     /\ c.opts[1].headers.Cookie # NoHeader) =>
      c.reqs[1].headers.Cookie = c.opts[1].headers.Cookie

\* C9: getPageContent fails with its not-found error when the page entry has
\* no revisions, and returns the text of the first revision's content field
\* unchanged whenever that field is there, the empty text included.
C9_ContentExact ==
  \A i \in DOMAIN calls :
    LET c == calls[i] IN
    (c.op = "getPageContent" /\ Len(c.answers) = 1 /\ c.answers[1].status = "ok") =>
      /\ c.answers[1].label = NoRevisions =>
           /\ c.pc = "thrown"
           /\ c.err = "Page \"" \o Title \o "\" not found or has no content."
      /\ c.answers[1].label \notin {NoPage, NoRevisions, NoContentField} =>
           /\ c.pc = "returned"
           /\ Get(c.out, "content") = Str(c.answers[1].label)

\* C10: no handler failure reaches the caller unlogged: a call that has thrown
\* has printed a console.error line for the error it throws.
C10_FailuresLogged ==
  \A i \in DOMAIN calls :
    calls[i].pc = "thrown" =>
      \E k \in DOMAIN calls[i].log : calls[i].log[k] = "Error: " \o calls[i].err

\* C11: in every mutating operation a token fetch answered with a non-success
\* status makes the operation fail with its token-fetch error, and the
\* invocation issues no write request.
C11_TokenFetchStatusFails ==
  \A i \in DOMAIN calls :
    LET c == calls[i] IN
    (c.op \in WriteOps /\ Len(c.answers) >= 1 /\ c.answers[1].status = "not ok") =>
      /\ c.pc = "thrown"
      /\ c.err = "Failed to fetch " \o TokenName(c.op) \o " token: " \o StatusText
      /\ c.out.t = "undefined"
      /\ Len(c.reqs) = 1
      /\ IsTokenFetch(c, c.reqs[1])

\* C11 happens: a statement addition whose token fetch was answered with a
\* non-success status has failed after its one request.
C11_Witness ==
  \E i \in DOMAIN calls :
    /\ calls[i].op = "addStatement"
    /\ Len(calls[i].answers) = 1
    /\ calls[i].answers[1].status = "not ok"
    /\ calls[i].pc = "thrown"
    /\ Len(calls[i].reqs) = 1

\* The step in which loginAsBot handles the answer to its k-th request.
LoginAnswered(k) == Len(cfg.answers) = k - 1 /\ Len(cfg'.answers) = k

\* C12: the login POST is sent only after a login token was obtained.  When the
\* login token fetch is answered with a non-success status, or with a payload
\* that has no query.tokens.logintoken, the configure call fails, no login POST
\* is sent and the session credential stays as it was; a login POST that is
\* sent carries the token the fetch was answered with.
C12_LoginPostNeedsToken ==
  [][ LoginAnswered(1) =>
        LET a == cfg'.answers[1] IN
        /\ a.status = "not ok" =>
             /\ cfg'.outcome = "rejected"
             /\ cfg'.err = "Failed to fetch login token: " \o StatusText
             /\ Len(cfg'.reqs) = 1
             /\ sessionCookie' = sessionCookie
        /\ (a.status = "ok" /\ a.label = NoField) =>
             /\ cfg'.outcome = "rejected"
             /\ cfg'.err = "Failed to retrieve login token."
             /\ Len(cfg'.reqs) = 1
             /\ sessionCookie' = sessionCookie
        /\ Len(cfg'.reqs) = 2 =>
             /\ a.status = "ok"
             /\ a.label \notin {NoField, ""}
             /\ cfg'.reqs[2].method = "POST"
             /\ cfg'.reqs[2].token = a.label ]_vars

\* C12 happens: with sid=A installed by a first login, a second configure call
\* got a login token answer without the token field and has failed after its
\* one request, sid=A still installed.
C12_Witness ==
  /\ nConfigures = 2
  /\ sessionCookie = "sid=A"
  /\ cfg.outcome = "rejected"
  /\ Len(cfg.answers) = 1
  /\ cfg.answers[1].status = "ok"
  /\ cfg.answers[1].label = NoField
  /\ Len(cfg.reqs) = 1

\* C13: a login POST answered with a non-success status, or with a success
\* status and a login.result other than "Success", makes the configure call
\* fail (with the upstream's reason when it gives one, else the generic one)
\* and leaves the session credential as it was, set-cookie header or not.
C13_LoginRejectedKeepsCredential ==
  [][ LoginAnswered(2) =>
        LET a == cfg'.answers[2] IN
        /\ a.status = "not ok" =>
             /\ cfg'.outcome = "rejected"
             /\ cfg'.err = "Failed to log in: " \o StatusText
             /\ sessionCookie' = sessionCookie
        /\ (a.status = "ok" /\ a.label # LoginSuccess) =>
             /\ cfg'.outcome = "rejected"
             /\ cfg'.err = "Login failed: " \o
                  (IF a.label = NoField THEN "Unknown reason" ELSE a.label)
             /\ sessionCookie' = sessionCookie ]_vars

\* C13 happens: with sid=A installed, a second login was refused with a reason
\* in an answer that carried set-cookie sid=B; sid=A is still installed.
C13_Witness ==
  /\ nConfigures = 2
  /\ sessionCookie = "sid=A"
  /\ cfg.outcome = "rejected"
  /\ Len(cfg.answers) = 2
  /\ cfg.answers[2].label = WrongPassword
  /\ cfg.setCookie = "sid=B"
  /\ cfg.err = "Login failed: " \o WrongPassword

\* C14: a login answered with login.result "Success" and no set-cookie header
\* completes without failure and leaves no credential installed (one installed
\* before is gone), and requests dispatched while none is installed carry no
\* Cookie header.
C14_SuccessWithoutHeader ==
  [][ /\ (LoginAnswered(2) /\ cfg'.answers[2].label = LoginSuccess
          /\ cfg'.setCookie = Null) =>
           /\ cfg'.outcome = "resolved"
           /\ cfg'.err = ""
           /\ sessionCookie' = Null
      /\ \A i \in DOMAIN calls :
           (Dispatched(i) /\ sessionCookie = Null) =>
             LastReq(calls'[i]).headers.Cookie = NoHeader ]_vars

\* C14 happens: a mutating call fetched its token under sid=A; then a second
\* login succeeded without a set-cookie header, and the call's write went out
\* without a Cookie header.
C14_Witness ==
  /\ nConfigures = 2
  /\ LoginDone
  /\ cfg.answers[2].label = LoginSuccess
  /\ cfg.setCookie = Null
  /\ sessionCookie = Null
  /\ \E i \in DOMAIN calls :
       /\ Len(calls[i].reqs) = 2
       /\ calls[i].reqs[1].headers.Cookie = "sid=A"
       /\ calls[i].reqs[2].headers.Cookie = NoHeader

\* A Bot Login is in flight: loginAsBot awaits one of its two answers.
LoginInFlight == cfg.pc \in {"loginToken", "login"}

\* C15: nothing locks the login window.  While a Bot Login is in flight every
\* handler can be invoked, and a handler that dispatches a request then, with
\* no credential installed yet, sends it without a Cookie header and leaves the
\* login as it is (so the login can still succeed afterwards).
C15_NoLockAroundLogin ==
  /\ [](\A i \in DOMAIN calls :
          (LoginInFlight /\ calls[i].pc = "idle") =>
            /\ \A op \in ReadOps :
                 \E id \in EntityIds \cup {""} : ENABLED InvokeRead(i, op, id)
            /\ \A op \in WriteOps : ENABLED InvokeWrite(i, op))
  /\ [][ \A i \in DOMAIN calls :
           (LoginInFlight /\ Dispatched(i) /\ ~TruthyStr(sessionCookie)) =>
             /\ LastReq(calls'[i]).headers.Cookie = NoHeader
             /\ cfg' = cfg
             /\ sessionCookie' = sessionCookie ]_vars

\* C15 happens: the first configure call set the MediaWiki base and started a
\* login; getPageContent was called after that (its request went to the new
\* base) and before the login completed (its request has no Cookie); the login
\* has then succeeded and installed sid=A.
C15_Witness ==
  /\ nConfigures = 1
  /\ cfg.config.mediaWikiAPIBase = OverrideMediaWikiAPIBase
  /\ LoginDone
  /\ sessionCookie = "sid=A"
  /\ \E i \in DOMAIN calls :
       /\ calls[i].op = "getPageContent"
       /\ Len(calls[i].reqs) = 1
       /\ calls[i].reqs[1].url = OverrideMediaWikiAPIBase
       /\ calls[i].reqs[1].headers.Cookie = NoHeader

\* loginAsBot dispatches a request in this step (its token fetch or its POST).
LoginDispatched == cfg'.pc \in {"loginToken", "login"} /\ cfg'.pc # cfg.pc

\* C16: while a credential is installed no request goes out without it: not a
\* handler's request, and not the login token fetch or the login POST of a
\* later Bot Login.
C16_EveryRequestCredentialed ==
  [][ TruthyStr(sessionCookie) =>
        /\ \A i \in DOMAIN calls :
             Dispatched(i) => LastReq(calls'[i]).headers.Cookie = sessionCookie
        /\ LoginDispatched =>
             cfg'.reqs[Len(cfg'.reqs)].headers.Cookie = sessionCookie ]_vars

\* The expected field of a read answer is absent, by the upstream's account.
ExpectedFieldAbsent(c) ==
  /\ Len(c.answers) = 1
  /\ c.answers[1].status = "ok"
  /\ \/ c.answers[1].label \in {NoPage, FieldAbsent}
     \/ c.op = "getEntityData" /\ c.answers[1].label # c.id

\* C17: no read-only handler turns a missing expected field (the query.pages
\* entry, query.search, entities[id], search) into a default value: on a
\* success-status answer without it the handler fails and returns no result.
C17_MissingFieldFails ==
  \A i \in DOMAIN calls :
    LET c == calls[i] IN
    (c.op \in ReadOps /\ ExpectedFieldAbsent(c)) =>
      c.pc = "thrown" /\ c.out.t = "undefined"

\* C18: no handler step, of any of the ten handlers, whether the call returns
\* or throws, changes the session credential or either base; the bases change
\* only in a step of onConfigure and the credential only in the step that
\* completes a Bot Login.
C18_HandlersLeaveSession ==
  [][ /\ (\E i \in DOMAIN calls : calls'[i] # calls[i]) =>
           UNCHANGED <<sessionCookie, mediaWikiAPIBase, wikiBaseAPIBase>>
      /\ (mediaWikiAPIBase' # mediaWikiAPIBase \/ wikiBaseAPIBase' # wikiBaseAPIBase) =>
           nConfigures' = nConfigures + 1 /\ calls' = calls
      /\ sessionCookie' # sessionCookie =>
           LoginAnswered(2) /\ calls' = calls ]_vars

\* C18 happens: under credential sid=A and both bases overridden, an entity
\* edit ran both its requests and failed; credential and bases are as before.
C18_Witness ==
  /\ sessionCookie = "sid=A"
  /\ mediaWikiAPIBase = OverrideMediaWikiAPIBase
  /\ wikiBaseAPIBase = OverrideWikiBaseAPIBase
  /\ \E i \in DOMAIN calls :
       /\ calls[i].op = "editEntity"
       /\ calls[i].pc = "thrown"
       /\ Len(calls[i].reqs) = 2
       /\ calls[i].reqs[1].url = OverrideWikiBaseAPIBase
       /\ calls[i].reqs[1].headers.Cookie = "sid=A"
       /\ calls[i].reqs[2].headers.Cookie = "sid=A"

\* The requests of an invocation so far: one for a read-only handler; for a
\* mutating handler one token fetch, then at most one write; none left
\* unanswered once the call has settled.
RequestsOf(c) ==
  /\ c.op \in ReadOps => Len(c.reqs) = 1
  /\ c.op \in WriteOps =>
       /\ Len(c.reqs) \in {1, 2}
       /\ IsTokenFetch(c, c.reqs[1])
       /\ Len(c.reqs) = 2 => IsWrite(c, c.reqs[2])
  /\ Len(c.reqs) - Len(c.answers) \in {0, 1}
  /\ c.pc \in {"returned", "thrown"} => Len(c.reqs) = Len(c.answers)

\* C19: nothing is retried and nothing runs in the background: a read-only
\* invocation issues exactly one request, a mutating invocation one token fetch
\* and at most one write, a Bot Login at most two requests; and when the
\* upstream answers every request, every invocation and every configure call
\* in progress comes to return or fail.
C19_NoRetryAndTermination ==
  /\ [](/\ \A i \in DOMAIN calls : RequestsOf(calls[i])
        /\ Len(cfg.reqs) <= 2
        /\ cfg.outcome \in {"resolved", "rejected"} => Len(cfg.reqs) = Len(cfg.answers))
  /\ \A i \in {1} :
       (calls[i].pc \in {"token", "write", "read"}) ~> (calls[i].pc \in {"returned", "thrown"})
  /\ (cfg.outcome = "pending") ~> (cfg.outcome \in {"resolved", "rejected"})

\* C19 happens: after a Bot Login of two requests, a page creation has returned
\* with its two requests answered.
C19_Witness ==
  /\ LoginDone
  /\ Len(cfg.answers) = 2
  /\ \E i \in DOMAIN calls :
       /\ calls[i].op = "createPage"
       /\ calls[i].pc = "returned"
       /\ Len(calls[i].reqs) = 2
       /\ Len(calls[i].answers) = 2

\* C20, as claimed: in a mutating invocation the token fetch and the write
\* carry the same credential state, whatever a concurrent Bot Login does.
C20_SameCredentialBothRequests ==
  \A i \in DOMAIN calls :
    LET c == calls[i] IN
    (c.op \in WriteOps /\ Len(c.reqs) = 2) =>
      c.reqs[1].headers.Cookie = c.reqs[2].headers.Cookie

\* The Cookie header authenticatedFetch sends now (none without a credential).
CookieSent == IF TruthyStr(sessionCookie) THEN sessionCookie ELSE NoHeader

\* C20, amended: each of the two requests of a mutating invocation carries the
\* credential state installed at the moment it is dispatched.  While the token
\* fetch is outstanding nothing but the completion of a successful Bot Login
\* changes that state, so the write carries the token fetch's credential state
\* unless a Bot Login has completed in between and installed another.
C20_CredentialAtDispatch ==
  [][ \A i \in DOMAIN calls :
        /\ (Dispatched(i) /\ calls'[i].op \in WriteOps) =>
             LET c == calls'[i] IN
             /\ LastReq(c).headers.Cookie = CookieSent
             /\ Len(c.reqs) = 2 =>
                  (c.reqs[2].headers.Cookie = c.reqs[1].headers.Cookie
                     <=> c.reqs[1].headers.Cookie = CookieSent)
        /\ (calls[i].op \in WriteOps /\ calls[i].pc = "token"
            /\ ~(LoginAnswered(2) /\ cfg'.outcome = "resolved")) =>
             CookieSent' = CookieSent ]_vars

\* C20 happens: an edit fetched its token during the first Bot Login, without
\* a Cookie; the login then installed sid=A and the edit's write carried it.
C20_Witness ==
  /\ nConfigures = 1
  /\ LoginDone
  /\ sessionCookie = "sid=A"
  /\ \E i \in DOMAIN calls :
       /\ calls[i].op = "editPage"
       /\ Len(calls[i].reqs) = 2
       /\ calls[i].reqs[1].headers.Cookie = NoHeader
       /\ calls[i].reqs[2].headers.Cookie = "sid=A"

\* C21: onConfigure applies the base overrides of an accepted config before it
\* attempts the Bot Login: a base the config names takes the config's value, a
\* base it leaves out keeps its previous value, and the login token fetch goes
\* to the new MediaWiki base.  When the login then fails, both bases stay as
\* the call set them and the session credential stays as it was.
C21_OverridesBeforeLogin ==
  [][ /\ (nConfigures' = nConfigures + 1 /\ cfg'.err # "ZodError") =>
           /\ mediaWikiAPIBase' = IF cfg'.config.mediaWikiAPIBase = Absent
                                  THEN mediaWikiAPIBase ELSE cfg'.config.mediaWikiAPIBase
           /\ wikiBaseAPIBase' = IF cfg'.config.wikiBaseAPIBase = Absent
                                 THEN wikiBaseAPIBase ELSE cfg'.config.wikiBaseAPIBase
           /\ sessionCookie' = sessionCookie
           /\ cfg'.reqs # <<>> => cfg'.reqs[1].url = mediaWikiAPIBase'
      /\ ((LoginAnswered(1) \/ LoginAnswered(2)) /\ cfg'.outcome = "rejected") =>
           /\ UNCHANGED <<mediaWikiAPIBase, wikiBaseAPIBase, sessionCookie>>
           /\ cfg.config.mediaWikiAPIBase # Absent =>
                mediaWikiAPIBase' = cfg.config.mediaWikiAPIBase
           /\ cfg.config.wikiBaseAPIBase # Absent =>
                wikiBaseAPIBase' = cfg.config.wikiBaseAPIBase ]_vars

\* C21 happens: with sid=A installed and the Wikibase base overridden by a
\* first configure call, a second call that names the MediaWiki base only, with
\* credentials, was refused at its login POST: the MediaWiki override is in
\* effect, the Wikibase base is the earlier one, and sid=A is still installed.
C21_Witness ==
  /\ nConfigures = 2
  /\ cfg.outcome = "rejected"
  /\ Len(cfg.answers) = 2
  /\ cfg.config.mediaWikiAPIBase = OverrideMediaWikiAPIBase
  /\ cfg.config.wikiBaseAPIBase = Absent
  /\ cfg.reqs[1].url = OverrideMediaWikiAPIBase
  /\ mediaWikiAPIBase = OverrideMediaWikiAPIBase
  /\ wikiBaseAPIBase = OverrideWikiBaseAPIBase
  /\ sessionCookie = "sid=A"

====
